---- MODULE Spec2Model ----
(***************************************************************************)
(* Model of the streaming path of the Gemini -> OpenAI proxy:              *)
(* app.post('/v1/chat/completions') with stream = true and                 *)
(* transformGeminiStreamToOpenAIStream.  Two deployment variants exist in  *)
(* the repository: gemini-converter-vercel/api/index.js (fallback content  *)
(* enabled) and the baseline variant (no fallback).  The variable          *)
(* fallback selects the variant.                                           *)
(*                                                                         *)
(* Specifications:                                                         *)
(*   Spec          one streaming exchange                                  *)
(*   SpecEvents    one streaming exchange, the backend stream emitting     *)
(*                 its events in any order                                 *)
(*   SpecText      one streaming exchange on bodies of newline runs        *)
(*   SpecPair      two concurrent streaming exchanges                      *)
(*   SpecReq       openaiToGeminiRequest on one request                    *)
(*   SpecSingle    one single-shot exchange (geminiToOpenAIResponse and    *)
(*                 the catch block of the route)                           *)
(*   SpecLoopFair  one pass of the 'data' handler, its while loop taken    *)
(*                 one iteration per step                                  *)
(*                                                                         *)
(* The backend body is a sequence of bytes.  Bytes are abstracted to       *)
(* tokens:                                                                 *)
(*   "D"  the ASCII run  data:<space>                                      *)
(*   "{"  the ASCII run  {"candidates":[{"content":{"parts":[{"text":"     *)
(*   "}"  the ASCII run  "}]}}]}                                           *)
(*   "a"  an ASCII text character                                          *)
(*   "L"  the lead byte of a two-byte UTF-8 character                      *)
(*   "C"  the continuation byte of a two-byte UTF-8 character              *)
(*   "n"  the newline byte                                                 *)
(* Decoded text additionally has "U" (the two-byte character) and "R"      *)
(* (U+FFFD, the replacement character).                                    *)
(***************************************************************************)
EXTENDS Integers, Sequences, FiniteSets, TLC

VARIABLES fallback, pc, wire, pos, nData, buffer, hasSentContent, out,
          writableEnded, streamState, id, created, clock, clientGone

\* two concurrently running re-framers (closure state of two calls of
\* transformGeminiStreamToOpenAIStream)
VARIABLES pWire, pHist, pBuffer, pSent, pId, pOut, pState

\* one call of openaiToGeminiRequest
VARIABLES openaiRequest, geminiRequest, mapped

\* one single-shot exchange of app.post('/v1/chat/completions')
VARIABLES backend, resWritable, clientResponse

\* one pass of the 'data' handler, one loop iteration per step
VARIABLES lChunk, lStart, lBuffer, lIters, lPc

pairVars == <<pWire, pHist, pBuffer, pSent, pId, pOut, pState>>
reqVars == <<openaiRequest, geminiRequest, mapped>>
singleVars == <<backend, resWritable, clientResponse>>
loopVars == <<lChunk, lStart, lBuffer, lIters, lPc>>
auxVars == <<pairVars, reqVars, singleVars, loopVars>>
streamVars == <<pc, wire, pos, nData, buffer, hasSentContent, out,
                writableEnded, streamState, id, created, clock, clientGone>>

vars == <<fallback, pc, wire, pos, nData, buffer, hasSentContent, out,
          writableEnded, streamState, id, created, clock, clientGone, auxVars>>

\* ---- bounds ----
MaxFrames == 2
MaxClock == 1
MaxData == 3
MaxPairData == 2
MaxMsgs == 2
MaxText == 2
MaxLoopLen == 4
MaxWire == 5

\* ---- inputs ----
NL == "n"
Delim == <<NL, NL>>
FrameA == <<"D", "{", "a", "}">>
FrameU == <<"D", "{", "L", "C", "}">>
FrameEmpty == <<"D", "{", "}">>
FrameBad == <<"D", "{", "a">>
Catalogue == {FrameA, FrameU, FrameEmpty, FrameBad}
Trailing == {<<>>, FrameA}

RECURSIVE Flatten(_)
Flatten(fs) == IF fs = <<>> THEN <<>> ELSE Head(fs) \o Delim \o Flatten(Tail(fs))

FrameSeqs == UNION {[1..n -> Catalogue] : n \in 0..MaxFrames}
\* a malformed frame between two valid ones
Sandwich == {Flatten(<<FrameA, FrameBad, FrameU>>),
             Flatten(<<FrameU, FrameBad, FrameA>>)}
Wires == {Flatten(fs) \o t : fs \in FrameSeqs, t \in Trailing} \cup Sandwich

\* ---- chunk.toString(): UTF-8 decoding of one delivered Buffer ----
RECURSIVE Decode(_)
Decode(bytes) ==
    IF bytes = <<>> THEN <<>>
    ELSE IF Head(bytes) = "L"
         THEN IF Len(bytes) >= 2 /\ bytes[2] = "C"
              THEN <<"U">> \o Decode(SubSeq(bytes, 3, Len(bytes)))
              ELSE <<"R">> \o Decode(Tail(bytes))
         ELSE IF Head(bytes) = "C"
              THEN <<"R">> \o Decode(Tail(bytes))
              ELSE <<Head(bytes)>> \o Decode(Tail(bytes))

\* ---- buffer += chunk.toString() ----
AccumulateReplace(buf, chunk) == Decode(chunk)
Accumulate(buf, chunk) == buf \o Decode(chunk)

\* ---- buffer.indexOf('\n\n'), 1-based; 0 when absent ----
IndexOfDelim(s) ==
    LET hits == {i \in 1..(Len(s) - 1) : s[i] = NL /\ s[i + 1] = NL}
    IN IF hits = {} THEN 0 ELSE CHOOSE i \in hits : \A j \in hits : i <= j

\* ---- buffer.substring(boundary + 2), boundary 1-based ----
RestKeepsDelimiter(buf, boundary) == SubSeq(buf, boundary, Len(buf))
RestOffByOne(buf, boundary) == SubSeq(buf, boundary + 1, Len(buf))
Rest(buf, boundary) == SubSeq(buf, boundary + 2, Len(buf))

\* ---- .replace(/^data: /, '') ----
StripPrefix(s) == IF s # <<>> /\ s[1] = "D" THEN Tail(s) ELSE s

\* ---- JSON.parse and candidates?.[0]?.content?.parts?.[0]?.text || '' ----
RECURSIVE TrimLeft(_)
TrimLeft(s) == IF s # <<>> /\ Head(s) = NL THEN TrimLeft(Tail(s)) ELSE s
RECURSIVE TrimRight(_)
TrimRight(s) ==
    IF s # <<>> /\ s[Len(s)] = NL THEN TrimRight(SubSeq(s, 1, Len(s) - 1)) ELSE s
TextChars == {"a", "U", "R", "D"}
JSONParses(s) ==
    LET t == TrimRight(TrimLeft(s))
    IN /\ Len(t) >= 2
       /\ t[1] = "{"
       /\ t[Len(t)] = "}"
       /\ \A i \in 2..(Len(t) - 1) : t[i] \in TextChars
ExtractContentLenient(s) ==
    LET t == TrimRight(TrimLeft(s))
    IN IF t # <<>> /\ t[1] = "{"
       THEN SelectSeq(Tail(t), LAMBDA c : c \in TextChars)
       ELSE <<>>
ExtractContent(s) ==
    LET t == TrimRight(TrimLeft(s))
    IN IF JSONParses(s) THEN SubSeq(t, 2, Len(t) - 1) ELSE <<>>

\* ---- the frames written with res.write and the res.end() marker ----
Placeholder == <<"meow">>
ContentChunkFreshStamp(content) ==
    [kind |-> "chunk", id |-> id, created |-> clock, hasContent |-> TRUE,
     content |-> content, finish_reason |-> "null"]
ContentChunk(content) ==
    [kind |-> "chunk", id |-> id, created |-> created, hasContent |-> TRUE,
     content |-> content, finish_reason |-> "null"]
MeowChunk == ContentChunk(Placeholder)
DoneChunk ==
    [kind |-> "chunk", id |-> id, created |-> created, hasContent |-> FALSE,
     content |-> <<>>, finish_reason |-> "stop"]
DoneSentinel ==
    [kind |-> "done", id |-> 0, created |-> 0, hasContent |-> FALSE,
     content |-> <<>>, finish_reason |-> ""]
CloseMark ==
    [kind |-> "close", id |-> 0, created |-> 0, hasContent |-> FALSE,
     content |-> <<>>, finish_reason |-> ""]

\* ---- the while loop of the 'data' handler ----
RECURSIVE ScanLoopFlagEarly(_, _, _)
ScanLoopFlagEarly(buf, sent, writes) ==
    LET boundary == IndexOfDelim(buf)
    IN IF boundary = 0
       THEN [buffer |-> buf, hasSentContent |-> sent, writes |-> writes]
       ELSE LET jsonString == StripPrefix(SubSeq(buf, 1, boundary - 1))
                rest == Rest(buf, boundary)
                content == ExtractContent(jsonString)
            IN IF content # <<>>
               THEN ScanLoopFlagEarly(rest, TRUE,
                                      Append(writes, ContentChunk(content)))
               ELSE ScanLoopFlagEarly(rest, JSONParses(jsonString) \/ sent, writes)
RECURSIVE ScanLoopKeepBad(_, _, _)
ScanLoopKeepBad(buf, sent, writes) ==
    LET boundary == IndexOfDelim(buf)
    IN IF boundary = 0
       THEN [buffer |-> buf, hasSentContent |-> sent, writes |-> writes]
       ELSE LET jsonString == StripPrefix(SubSeq(buf, 1, boundary - 1))
                rest == Rest(buf, boundary)
                content == ExtractContent(jsonString)
            IN IF ~JSONParses(jsonString)
               THEN [buffer |-> buf, hasSentContent |-> sent, writes |-> writes]
               ELSE IF content # <<>>
                    THEN ScanLoopKeepBad(rest, TRUE,
                                         Append(writes, ContentChunk(content)))
                    ELSE ScanLoopKeepBad(rest, sent, writes)
RECURSIVE ScanLoopFlagLast(_, _, _)
ScanLoopFlagLast(buf, sent, writes) ==
    LET boundary == IndexOfDelim(buf)
    IN IF boundary = 0
       THEN [buffer |-> buf, hasSentContent |-> sent, writes |-> writes]
       ELSE LET jsonString == StripPrefix(SubSeq(buf, 1, boundary - 1))
                rest == Rest(buf, boundary)
                content == ExtractContent(jsonString)
            IN IF content # <<>>
               THEN ScanLoopFlagLast(rest, TRUE, Append(writes, ContentChunk(content)))
               ELSE ScanLoopFlagLast(rest, sent /\ ~JSONParses(jsonString), writes)
RECURSIVE ScanLoop(_, _, _)
ScanLoop(buf, sent, writes) ==
    LET boundary == IndexOfDelim(buf)
    IN IF boundary = 0
       THEN [buffer |-> buf, hasSentContent |-> sent, writes |-> writes]
       ELSE LET jsonString == StripPrefix(SubSeq(buf, 1, boundary - 1))
                rest == Rest(buf, boundary)
                content == ExtractContent(jsonString)
            IN IF content # <<>>
               THEN ScanLoop(rest, TRUE, Append(writes, ContentChunk(content)))
               ELSE ScanLoop(rest, sent, writes)

\* ---- what the 'end' handler writes, res.end() included ----
EndWritesMeowLast(fb, sent) ==
    <<DoneChunk>> \o (IF fb /\ ~sent THEN <<MeowChunk>> ELSE <<>>)
        \o <<DoneSentinel, CloseMark>>
EndWritesFlush(fb, sent) ==
    LET content == ExtractContent(StripPrefix(buffer))
    IN (IF content # <<>> THEN <<ContentChunk(content)>>
        ELSE IF fb /\ ~sent THEN <<MeowChunk>> ELSE <<>>)
           \o <<DoneChunk, DoneSentinel, CloseMark>>
EndWritesNoSentinel(fb, sent) ==
    (IF fb /\ ~sent THEN <<MeowChunk>> ELSE <<>>) \o <<DoneChunk, CloseMark>>
EndWrites(fb, sent) ==
    (IF fb /\ ~sent THEN <<MeowChunk>> ELSE <<>>)
        \o <<DoneChunk, DoneSentinel, CloseMark>>

\* ---- what the 'error' handler writes ----
ErrorWritesSentinel(ended) ==
    IF ~ended THEN <<DoneSentinel, CloseMark>> ELSE <<>>
ErrorWritesInverted(ended) == IF ended THEN <<CloseMark>> ELSE <<>>
ErrorWrites(ended) == IF ~ended THEN <<CloseMark>> ELSE <<>>

StreamIdle ==
    /\ pc = "idle"
    /\ wire = <<>>
    /\ pos = 0
    /\ nData = 0
    /\ buffer = <<>>
    /\ hasSentContent = FALSE
    /\ out = <<>>
    /\ writableEnded = FALSE
    /\ streamState = "none"
    /\ id = 0
    /\ created = 0
    /\ clock = 0
    /\ clientGone = FALSE

PairIdle ==
    /\ pWire = [i \in 1..2 |-> <<>>]
    /\ pHist = [i \in 1..2 |-> <<>>]
    /\ pBuffer = [i \in 1..2 |-> <<>>]
    /\ pSent = [i \in 1..2 |-> FALSE]
    /\ pId = [i \in 1..2 |-> 0]
    /\ pOut = [i \in 1..2 |-> <<>>]
    /\ pState = [i \in 1..2 |-> "none"]

\* optional JSON fields
None == [has |-> FALSE, v |-> 0]
Some(x) == [has |-> TRUE, v |-> x]

ReqIdle ==
    /\ openaiRequest = [messages |-> <<>>, max_tokens |-> None,
                        temperature |-> None]
    /\ geminiRequest = [contents |-> <<>>,
                        generationConfig |-> [maxOutputTokens |-> None,
                                              temperature |-> None],
                        safetySettings |-> <<>>]
    /\ mapped = FALSE

NoUsage == [has |-> FALSE, promptTokenCount |-> None,
            candidatesTokenCount |-> None, totalTokenCount |-> None]
NoResponse ==
    [status |-> 0, kind |-> "none", content |-> <<>>, code |-> 0,
     usage |-> [prompt_tokens |-> 0, completion_tokens |-> 0,
                total_tokens |-> 0]]
SingleIdle ==
    /\ backend = [ok |-> FALSE, status |-> None, path |-> "none",
                  text |-> <<>>, usageMetadata |-> NoUsage]
    /\ resWritable = TRUE
    /\ clientResponse = NoResponse

LoopIdle ==
    /\ lChunk = <<>>
    /\ lStart = <<>>
    /\ lBuffer = <<>>
    /\ lIters = 0
    /\ lPc = "idle"

AuxIdle == PairIdle /\ ReqIdle /\ SingleIdle /\ LoopIdle

Init ==
    /\ fallback \in BOOLEAN
    /\ AuxIdle
    /\ pc = "idle"
    /\ wire = <<>>
    /\ pos = 0
    /\ nData = 0
    /\ buffer = <<>>
    /\ hasSentContent = FALSE
    /\ out = <<>>
    /\ writableEnded = FALSE
    /\ streamState = "none"
    /\ id = 0
    /\ created = 0
    /\ clock = 0
    /\ clientGone = FALSE

\* Date.now() advances while the exchange is in progress
Tick ==
    /\ streamState = "flowing"
    /\ clock < MaxClock
    /\ clock' = clock + 1
    /\ UNCHANGED <<fallback, pc, wire, pos, nData, buffer, hasSentContent, out,
                   writableEnded, streamState, id, created, clientGone>>
    /\ UNCHANGED auxVars

\* stream branch of the route: axios.post resolves, res.writeHead,
\* transformGeminiStreamToOpenAIStream registers the handlers
OpenStream ==
    /\ pc = "idle"
    /\ pc' = "streaming"
    /\ wire' \in Wires
    /\ id' = 1    \* the one Math.random() draw of this exchange
    /\ created' = clock
    /\ buffer' = <<>>
    /\ hasSentContent' = FALSE
    /\ streamState' = "flowing"
    /\ UNCHANGED <<fallback, pos, nData, out, writableEnded, clock, clientGone>>
    /\ UNCHANGED auxVars

\* geminiStream 'data'
OnData ==
    /\ streamState = "flowing"
    /\ nData < MaxData
    /\ \E k \in 1..(Len(wire) - pos) :
         LET chunk == SubSeq(wire, pos + 1, pos + k)
             r == ScanLoop(Accumulate(buffer, chunk), hasSentContent, <<>>)
         IN /\ pos' = pos + k
            /\ nData' = nData + 1
            /\ buffer' = r.buffer
            /\ hasSentContent' = r.hasSentContent
            /\ out' = out \o r.writes
    /\ UNCHANGED <<fallback, pc, wire, writableEnded, streamState, id, created,
                   clock, clientGone>>
    /\ UNCHANGED auxVars

\* geminiStream 'end'
OnEnd ==
    /\ streamState = "flowing"
    /\ pos = Len(wire)
    /\ out' = out \o EndWrites(fallback, hasSentContent)
    /\ writableEnded' = TRUE
    /\ streamState' = "ended"
    /\ UNCHANGED <<fallback, pc, wire, pos, nData, buffer, hasSentContent, id,
                   created, clock, clientGone>>
    /\ UNCHANGED auxVars

\* geminiStream 'error'
OnError ==
    /\ streamState = "flowing"
    /\ out' = out \o ErrorWrites(writableEnded)
    /\ writableEnded' = (writableEnded \/ ErrorWrites(writableEnded) # <<>>)
    /\ streamState' = "errored"
    /\ UNCHANGED <<fallback, pc, wire, pos, nData, buffer, hasSentContent, id,
                   created, clock, clientGone>>
    /\ UNCHANGED auxVars

\* the client closes its connection; no handler is registered for it
ClientDisconnect ==
    /\ streamState = "flowing"
    /\ ~clientGone
    /\ clientGone' = TRUE
    /\ UNCHANGED <<fallback, pc, wire, pos, nData, buffer, hasSentContent, out,
                   writableEnded, streamState, id, created, clock>>
    /\ UNCHANGED auxVars

Next == Tick \/ OpenStream \/ OnData \/ OnEnd \/ OnError \/ ClientDisconnect

Spec == Init /\ [][Next]_vars

\* ============ one streaming exchange, any order of events ============
\* geminiStream taken as a plain EventEmitter: once the three listeners are
\* registered, 'data', 'end' and 'error' may be emitted in any order and any
\* number of times (error then end, error then data, end twice, ...).  The
\* handlers are the same closures; nData counts the deliveries made.

\* a 'data' event whatever was emitted before
EmitData ==
    /\ pc = "streaming"
    /\ nData < MaxData
    /\ \E k \in 1..(Len(wire) - pos) :
         LET chunk == SubSeq(wire, pos + 1, pos + k)
             r == ScanLoop(Accumulate(buffer, chunk), hasSentContent, <<>>)
         IN /\ pos' = pos + k
            /\ buffer' = r.buffer
            /\ hasSentContent' = r.hasSentContent
            /\ out' = out \o r.writes
    /\ nData' = nData + 1
    /\ UNCHANGED <<fallback, pc, wire, writableEnded, streamState, id, created,
                   clock, clientGone>>
    /\ UNCHANGED auxVars

\* an 'end' event whatever was emitted before
EmitEnd ==
    /\ pc = "streaming"
    /\ nData < MaxData
    /\ out' = out \o EndWrites(fallback, hasSentContent)
    /\ writableEnded' = TRUE
    /\ streamState' = "ended"
    /\ nData' = nData + 1
    /\ UNCHANGED <<fallback, pc, wire, pos, buffer, hasSentContent, id,
                   created, clock, clientGone>>
    /\ UNCHANGED auxVars

\* an 'error' event whatever was emitted before
EmitError ==
    /\ pc = "streaming"
    /\ nData < MaxData
    /\ out' = out \o ErrorWrites(writableEnded)
    /\ writableEnded' = (writableEnded \/ ErrorWrites(writableEnded) # <<>>)
    /\ streamState' = "errored"
    /\ nData' = nData + 1
    /\ UNCHANGED <<fallback, pc, wire, pos, buffer, hasSentContent, id,
                   created, clock, clientGone>>
    /\ UNCHANGED auxVars

NextEvents == OpenStream \/ EmitData \/ EmitEnd \/ EmitError

SpecEvents == Init /\ [][NextEvents]_vars
\* ============ one streaming exchange, newline runs in the body ============
\* bodies over newline and one text character: every run of newlines
\* (single, double, triple, ...) at every place, under every split
TextWires == UNION {[1..n -> {NL, "a"}] : n \in 1..MaxWire}

\* stream branch of the route, for such a body
OpenText ==
    /\ pc = "idle"
    /\ pc' = "streaming"
    /\ wire' \in TextWires
    /\ id' = 1
    /\ created' = clock
    /\ buffer' = <<>>
    /\ hasSentContent' = FALSE
    /\ streamState' = "flowing"
    /\ UNCHANGED <<fallback, pos, nData, out, writableEnded, clock, clientGone>>
    /\ UNCHANGED auxVars

NextText == OpenText \/ OnData \/ OnEnd

SpecText == Init /\ [][NextText]_vars

\* ============ two concurrent streaming exchanges ============

PairWires == {Flatten(<<f>>) : f \in Catalogue}

\* the closure state (buffer, hasSentContent, id) that the handlers
\* registered by call i read and write: each call has its own
StateOfShared(i) == 1
StateOf(i) == i

\* the id captured by a call, put into the chunks its handlers build
Restamp(ws, idv) ==
    [k \in 1..Len(ws) |->
        IF ws[k].kind = "chunk" THEN [ws[k] EXCEPT !.id = idv] ELSE ws[k]]

RECURSIVE SumLen(_)
SumLen(cs) == IF cs = <<>> THEN 0 ELSE Len(Head(cs)) + SumLen(Tail(cs))

InitPair ==
    /\ fallback \in BOOLEAN
    /\ StreamIdle
    /\ PairIdle /\ ReqIdle /\ SingleIdle /\ LoopIdle

POpen(i) ==
    /\ pState[i] = "none"
    /\ \E w \in PairWires : pWire' = [pWire EXCEPT ![i] = w]
    /\ pBuffer' = [pBuffer EXCEPT ![StateOf(i)] = <<>>]
    /\ pSent' = [pSent EXCEPT ![StateOf(i)] = FALSE]
    /\ pId' = [pId EXCEPT ![StateOf(i)] = i]
    /\ pState' = [pState EXCEPT ![i] = "flowing"]
    /\ UNCHANGED <<fallback, streamVars, reqVars, singleVars, loopVars, pHist, pOut>>

PData(i) ==
    /\ pState[i] = "flowing"
    /\ Len(pHist[i]) < MaxPairData
    /\ \E k \in 1..(Len(pWire[i]) - SumLen(pHist[i])) :
         LET p == SumLen(pHist[i])
             chunk == SubSeq(pWire[i], p + 1, p + k)
             r == ScanLoop(Accumulate(pBuffer[StateOf(i)], chunk),
                           pSent[StateOf(i)], <<>>)
         IN /\ pHist' = [pHist EXCEPT ![i] = Append(@, chunk)]
            /\ pBuffer' = [pBuffer EXCEPT ![StateOf(i)] = r.buffer]
            /\ pSent' = [pSent EXCEPT ![StateOf(i)] = r.hasSentContent]
            /\ pOut' = [pOut EXCEPT
                          ![i] = @ \o Restamp(r.writes, pId[StateOf(i)])]
    /\ UNCHANGED <<fallback, streamVars, reqVars, singleVars, loopVars, pWire, pId,
                   pState>>

PEnd(i) ==
    /\ pState[i] = "flowing"
    /\ SumLen(pHist[i]) = Len(pWire[i])
    /\ pOut' = [pOut EXCEPT
                  ![i] = @ \o Restamp(EndWrites(fallback, pSent[StateOf(i)]),
                                      pId[StateOf(i)])]
    /\ pState' = [pState EXCEPT ![i] = "ended"]
    /\ UNCHANGED <<fallback, streamVars, reqVars, singleVars, loopVars, pWire, pHist,
                   pBuffer, pSent, pId>>

PError(i) ==
    /\ pState[i] = "flowing"
    /\ pOut' = [pOut EXCEPT ![i] = @ \o ErrorWrites(FALSE)]
    /\ pState' = [pState EXCEPT ![i] = "errored"]
    /\ UNCHANGED <<fallback, streamVars, reqVars, singleVars, loopVars, pWire, pHist,
                   pBuffer, pSent, pId>>

NextPair == \E i \in 1..2 : POpen(i) \/ PData(i) \/ PEnd(i) \/ PError(i)

SpecPair == InitPair /\ [][NextPair]_vars

\* ============ openaiToGeminiRequest ============

Roles == {"user", "assistant", "system", "tool"}
Contents == {"x", "y"}
Messages == [role : Roles, content : Contents]
TokenValues == {None, Some(0), Some(64)}
\* temperature in tenths
TemperatureValues == {None, Some(0), Some(7)}
Requests ==
    [messages : UNION {[1..n -> Messages] : n \in 0..MaxMsgs},
     max_tokens : TokenValues,
     temperature : TemperatureValues]

SafetySettings ==
    <<[category |-> "HARM_CATEGORY_HARASSMENT", threshold |-> "BLOCK_NONE"],
      [category |-> "HARM_CATEGORY_HATE_SPEECH", threshold |-> "BLOCK_NONE"],
      [category |-> "HARM_CATEGORY_SEXUALLY_EXPLICIT", threshold |-> "BLOCK_NONE"],
      [category |-> "HARM_CATEGORY_DANGEROUS_CONTENT", threshold |-> "BLOCK_NONE"]>>

\* message.role === 'assistant' ? 'model' : 'user'
RoleOfSystemAsModel(role) ==
    IF role \in {"assistant", "system"} THEN "model" ELSE "user"
RoleOf(role) == IF role = "assistant" THEN "model" ELSE "user"

\* for (const message of openaiRequest.messages) contents.push(...)
RECURSIVE PushAll(_, _)
PushAll(contents, messages) ==
    IF messages = <<>> THEN contents
    ELSE PushAll(Append(contents,
                        [role |-> RoleOf(Head(messages).role),
                         parts |-> <<[text |-> Head(messages).content]>>]),
                 Tail(messages))

\* if (openaiRequest.f) generationConfig.g = openaiRequest.f
CopyIfPresent(opt) == opt
CopyIfTruthy(opt) == IF opt.has /\ opt.v # 0 THEN opt ELSE None

openaiToGeminiRequest(r) ==
    [contents |-> PushAll(<<>>, r.messages),
     generationConfig |-> [maxOutputTokens |-> CopyIfTruthy(r.max_tokens),
                           temperature |-> CopyIfTruthy(r.temperature)],
     safetySettings |-> SafetySettings]

InitReq ==
    /\ fallback \in BOOLEAN
    /\ StreamIdle /\ PairIdle /\ SingleIdle /\ LoopIdle
    /\ openaiRequest \in Requests
    /\ geminiRequest = [contents |-> <<>>,
                        generationConfig |-> [maxOutputTokens |-> None,
                                              temperature |-> None],
                        safetySettings |-> <<>>]
    /\ mapped = FALSE

MapRequest ==
    /\ ~mapped
    /\ geminiRequest' = openaiToGeminiRequest(openaiRequest)
    /\ mapped' = TRUE
    /\ UNCHANGED <<fallback, streamVars, pairVars, singleVars, loopVars,
                   openaiRequest>>

NextReq == MapRequest

SpecReq == InitReq /\ [][NextReq]_vars

\* ============ single-shot exchange ============

TextAlphabet == {" ", "h"}
Texts == UNION {[1..n -> TextAlphabet] : n \in 0..MaxText}
Counters == {None, Some(0), Some(3)}
UsageMetas ==
    {NoUsage} \cup [has : {TRUE}, promptTokenCount : Counters,
                    candidatesTokenCount : Counters, totalTokenCount : Counters]
\* path = "none": some link of candidates[0].content.parts[0].text is absent
Replies ==
    [ok : {TRUE}, status : {Some(200)}, path : {"text"}, text : Texts,
     usageMetadata : UsageMetas]
    \cup [ok : {TRUE}, status : {Some(200)}, path : {"none"}, text : {<<>>},
          usageMetadata : UsageMetas]
\* status absent: transport-level failure, error.response undefined
Failures ==
    [ok : {FALSE}, status : {None, Some(400), Some(429), Some(503)},
     path : {"none"}, text : {<<>>}, usageMetadata : {NoUsage}]

\* String.prototype.trim
RECURSIVE StrTrimLeft(_)
StrTrimLeft(t) == IF t # <<>> /\ Head(t) = " " THEN StrTrimLeft(Tail(t)) ELSE t
RECURSIVE StrTrimRight(_)
StrTrimRight(t) ==
    IF t # <<>> /\ t[Len(t)] = " "
    THEN StrTrimRight(SubSeq(t, 1, Len(t) - 1)) ELSE t
StrTrim(t) == StrTrimRight(StrTrimLeft(t))

\* x || 0
OrZero(opt) == IF opt.has /\ opt.v # 0 THEN opt.v ELSE 0

\* usage of the response
UsageOfRecomputed(meta) ==
    [prompt_tokens |-> OrZero(meta.promptTokenCount),
     completion_tokens |-> OrZero(meta.candidatesTokenCount),
     total_tokens |-> OrZero(meta.promptTokenCount)
                          + OrZero(meta.candidatesTokenCount)]
UsageOf(meta) ==
    [prompt_tokens |-> OrZero(meta.promptTokenCount),
     completion_tokens |-> OrZero(meta.candidatesTokenCount),
     total_tokens |-> OrZero(meta.totalTokenCount)]

\* content of the response; fb selects the variant with the empty-content
\* substitution
ContentOfNoTrim(resp, fb) ==
    LET content == IF resp.path = "text" THEN resp.text ELSE <<>>
    IN IF fb /\ content = <<>> THEN Placeholder ELSE content
ContentOf(resp, fb) ==
    LET content == IF resp.path = "text" THEN resp.text ELSE <<>>
    IN IF fb /\ StrTrim(content) = <<>> THEN Placeholder ELSE content

geminiToOpenAIResponse(resp, fb) ==
    [status |-> 200, kind |-> "chat", content |-> ContentOf(resp, fb),
     code |-> 0, usage |-> UsageOf(resp.usageMetadata)]

\* the catch block of the route
CatchBlockAlways500(writable, headersSent, errStatus) ==
    IF writable /\ ~headersSent
    THEN [NoResponse EXCEPT !.status = 500, !.kind = "error", !.code = 500]
    ELSE IF writable THEN [NoResponse EXCEPT !.kind = "closed"]
         ELSE NoResponse
CatchBlock(writable, headersSent, errStatus) ==
    LET status == IF errStatus.has THEN errStatus.v ELSE 500
    IN IF writable /\ ~headersSent
       THEN [NoResponse EXCEPT !.status = status, !.kind = "error",
                               !.code = status]
       ELSE IF writable THEN [NoResponse EXCEPT !.kind = "closed"]
            ELSE NoResponse

InitSingle ==
    /\ fallback \in BOOLEAN
    /\ StreamIdle /\ PairIdle /\ ReqIdle /\ LoopIdle
    /\ backend = [ok |-> FALSE, status |-> None, path |-> "none",
                  text |-> <<>>, usageMetadata |-> NoUsage]
    /\ resWritable \in BOOLEAN
    /\ clientResponse = NoResponse

\* axios.post resolves; geminiToOpenAIResponse; res.status(200).json
BackendReplies ==
    /\ clientResponse.kind = "none" /\ backend.status = None
    /\ \E r \in Replies :
         /\ backend' = r
         /\ clientResponse' = geminiToOpenAIResponse(r, fallback)
    /\ UNCHANGED <<fallback, streamVars, pairVars, reqVars, loopVars,
                   resWritable>>

\* axios.post rejects; the catch block answers
BackendFails ==
    /\ clientResponse.kind = "none" /\ backend.status = None
    /\ \E f \in Failures :
         /\ backend' = [f EXCEPT !.path = "failed"]
         /\ clientResponse' = CatchBlock(resWritable, FALSE, f.status)
    /\ UNCHANGED <<fallback, streamVars, pairVars, reqVars, loopVars,
                   resWritable>>

NextSingle == BackendReplies \/ BackendFails

SpecSingle == InitSingle /\ [][NextSingle]_vars

\* ============ one 'data' pass, one loop iteration per step ============

LoopAlphabet == {NL, "a"}
LoopChunks == UNION {[1..n -> LoopAlphabet] : n \in 1..MaxLoopLen}
\* the buffer left by earlier passes holds no delimiter
LoopBuffers == {b \in UNION {[1..n -> LoopAlphabet] : n \in 0..2} :
                   IndexOfDelim(b) = 0}

InitLoop ==
    /\ fallback \in BOOLEAN
    /\ StreamIdle /\ PairIdle /\ ReqIdle /\ SingleIdle
    /\ lChunk \in LoopChunks
    /\ lBuffer \in LoopBuffers
    /\ lStart = <<>>
    /\ lIters = 0
    /\ lPc = "start"

\* buffer += chunk.toString(); boundary = buffer.indexOf('\n\n')
LAppend ==
    /\ lPc = "start"
    /\ lBuffer' = Accumulate(lBuffer, lChunk)
    /\ lStart' = Accumulate(lBuffer, lChunk)
    /\ lPc' = "scan"
    /\ UNCHANGED <<fallback, streamVars, pairVars, reqVars, singleVars,
                   lChunk, lIters>>

\* one iteration of while (boundary !== -1); the try/catch keeps a parse
\* failure inside the iteration
LIter ==
    /\ lPc = "scan"
    /\ IndexOfDelim(lBuffer) # 0
    /\ lBuffer' = Rest(lBuffer, IndexOfDelim(lBuffer))
    /\ lIters' = lIters + 1
    /\ UNCHANGED <<fallback, streamVars, pairVars, reqVars, singleVars,
                   lChunk, lStart, lPc>>

\* boundary === -1: the handler returns
LExit ==
    /\ lPc = "scan"
    /\ IndexOfDelim(lBuffer) = 0
    /\ lPc' = "done"
    /\ UNCHANGED <<fallback, streamVars, pairVars, reqVars, singleVars,
                   lChunk, lStart, lBuffer, lIters>>

NextLoop == LAppend \/ LIter \/ LExit

SpecLoop == InitLoop /\ [][NextLoop]_vars
\* the handler runs synchronously to completion once the event is delivered
SpecLoopFair == SpecLoop /\ WF_vars(NextLoop)

\* ======================= properties =======================

IsContent(f) == f.kind = "chunk" /\ f.hasContent
IsChunk(f) == f.kind = "chunk"
Frames(s) == SelectSeq(s, LAMBDA f : f.kind # "close")
NoBackendContent(s) ==
    \A i \in 1..Len(s) : IsContent(s[i]) => s[i].content = Placeholder
ClosedAfterSentinel(s) ==
    /\ Len(s) >= 2
    /\ s[Len(s)] = CloseMark
    /\ s[Len(s) - 1] = DoneSentinel

\* the delimited frames of a decoded text, by left-to-right scan
RECURSIVE DelimitedFrames(_)
DelimitedFrames(s) ==
    LET k == IndexOfDelim(s)
    IN IF k = 0 THEN <<>>
       ELSE <<SubSeq(s, 1, k - 1)>> \o DelimitedFrames(SubSeq(s, k + 2, Len(s)))
WireFrames == DelimitedFrames(Decode(wire))
FrameText(f) == ExtractContent(StripPrefix(f))
AllUnparseable ==
    /\ WireFrames # <<>>
    /\ \A i \in 1..Len(WireFrames) : ~JSONParses(StripPrefix(WireFrames[i]))

\* C1: with fallback enabled, a backend stream that reaches 'end' with no
\* backend content chunk emitted yields exactly: placeholder chunk, terminal
\* chunk, [DONE] sentinel, close.
C1_FallbackOrder ==
    (fallback /\ streamState = "ended" /\ NoBackendContent(out))
        => out = <<MeowChunk, DoneChunk, DoneSentinel, CloseMark>>
C1_Witness ==
    /\ fallback /\ streamState = "ended" /\ pos > 0
    /\ out = <<MeowChunk, DoneChunk, DoneSentinel, CloseMark>>

\* C2 (as stated): whenever the outgoing stream is closed, whatever data, end
\* and error events were delivered, the last frame written before the close
\* is the [DONE] sentinel.
C2_Original == writableEnded => ClosedAfterSentinel(out)
\* C2 (amended): when the backend stream reaches 'end', the last frame
\* written before the close is the [DONE] sentinel, also when the backend
\* produced no usable content.
C2_SentinelOnEnd == streamState = "ended" => ClosedAfterSentinel(out)
C2_Witness ==
    /\ streamState = "ended" /\ ~fallback /\ pos > 0
    /\ \A i \in 1..Len(out) : ~IsContent(out[i])
    /\ ClosedAfterSentinel(out)

\* C3: a wire that is one valid frame with non-empty text plus the delimiter,
\* delivered in two pieces, emits nothing after the first delivery and exactly
\* one content chunk carrying the frame's text after the second.
IsSingleValidFrame ==
    LET d == Decode(wire)
    IN /\ Len(d) >= 3
       /\ IndexOfDelim(d) = Len(d) - 1
       /\ FrameText(SubSeq(d, 1, Len(d) - 2)) # <<>>
C3_SplitFrame ==
    (streamState = "flowing" /\ IsSingleValidFrame) =>
        /\ (nData = 1 /\ pos < Len(wire)) => out = <<>>
        /\ (nData = 2 /\ pos = Len(wire)) =>
               out = <<ContentChunk(FrameText(WireFrames[1]))>>

\* C4: the content chunks written are, in order, exactly the non-empty texts
\* of the delimited frames delivered so far that parse, one chunk per frame,
\* with finish_reason null.
RECURSIVE ChunksOf(_)
ChunksOf(fs) ==
    IF fs = <<>> THEN <<>>
    ELSE (IF FrameText(Head(fs)) # <<>>
          THEN <<ContentChunk(FrameText(Head(fs)))>> ELSE <<>>)
         \o ChunksOf(Tail(fs))
C4_Ordering ==
    streamState = "flowing" =>
        out = ChunksOf(DelimitedFrames(Decode(SubSeq(wire, 1, pos))))

\* C5: every chunk written during one exchange carries the id and the created
\* timestamp fixed at stream start.
C5_StableIdCreated ==
    \A i \in 1..Len(out) :
        IsChunk(out[i]) => out[i].id = id /\ out[i].created = created
C5_Witness ==
    /\ clock # created
    /\ \E i, j \in 1..Len(out) :
         i < j /\ IsContent(out[i]) /\ out[j] = DoneChunk

\* C6 (as stated): a stream whose delimited frames are all unparseable,
\* followed by 'end', yields terminal chunk, sentinel and close and no content
\* chunk at all.
C6_Original ==
    (streamState = "ended" /\ AllUnparseable)
        => out = <<DoneChunk, DoneSentinel, CloseMark>>
\* C6 (amended): such a stream yields no backend-derived content chunk and
\* ends with terminal chunk, sentinel and close; with the fallback policy
\* enabled the placeholder chunk is written before the terminal chunk.
C6_MalformedOnly ==
    (streamState = "ended" /\ AllUnparseable)
        => out = (IF fallback THEN <<MeowChunk>> ELSE <<>>)
                     \o <<DoneChunk, DoneSentinel, CloseMark>>
C6_Witness ==
    /\ streamState = "ended" /\ AllUnparseable /\ fallback
    /\ Len(WireFrames) = 2
    /\ out = <<MeowChunk, DoneChunk, DoneSentinel, CloseMark>>

\* C7: the 'error' handler closes the outgoing stream and writes no frame.
C7_ErrorClosesSilently ==
    [][streamState' = "errored" =>
          /\ Frames(out') = Frames(out)
          /\ out' # <<>> /\ out'[Len(out')] = CloseMark
          /\ writableEnded']_vars
C7_Witness ==
    /\ streamState = "errored"
    /\ Len(out) >= 2
    /\ IsContent(out[1])
    /\ out[Len(out)] = CloseMark

\* C8: with fallback enabled, every exchange that ends normally has a content
\* chunk before the terminal chunk.
C8_ContentBeforeTerminal ==
    (fallback /\ streamState = "ended") =>
        \E i, j \in 1..Len(out) :
            i < j /\ IsContent(out[i]) /\ out[j] = DoneChunk
C8_Witness ==
    /\ fallback /\ streamState = "ended"
    /\ WireFrames # <<>>
    /\ \A i \in 1..Len(WireFrames) :
         JSONParses(StripPrefix(WireFrames[i])) /\ FrameText(WireFrames[i]) = <<>>
    /\ out[1] = MeowChunk

\* C9: once the backend stream has ended or errored, res.end() has been
\* called on the outgoing stream.
C9_ClosedOnEndOrError ==
    streamState \in {"ended", "errored"} =>
        /\ writableEnded
        /\ out # <<>> /\ out[Len(out)] = CloseMark
C9_Witness ==
    /\ streamState = "errored" /\ writableEnded /\ pos > 0
    /\ out[Len(out)] = CloseMark

\* C10: after the client has disconnected, no 'data' event of the backend
\* stream results in a write to the outgoing stream.
C10_NoForwardAfterDisconnect ==
    [][(clientGone /\ pos' > pos) => out' = out]_vars

\* what one re-framer writes when it runs alone on the given deliveries
RECURSIVE FeedAll(_, _, _, _)
FeedAll(chunks, buf, sent, writes) ==
    IF chunks = <<>>
    THEN [buffer |-> buf, hasSentContent |-> sent, writes |-> writes]
    ELSE LET r == ScanLoop(Accumulate(buf, Head(chunks)), sent, writes)
         IN FeedAll(Tail(chunks), r.buffer, r.hasSentContent, r.writes)
AloneOut(chunks, final) ==
    LET r == FeedAll(chunks, <<>>, FALSE, <<>>)
    IN r.writes \o (CASE final = "ended" -> EndWrites(fallback, r.hasSentContent)
                      [] final = "errored" -> ErrorWrites(FALSE)
                      [] OTHER -> <<>>)
HasBackendContent(s) ==
    \E k \in 1..Len(s) : IsContent(s[k]) /\ s[k].content # Placeholder

\* C11: under every interleaving of the events of two concurrent re-framers,
\* each writes what it would write running alone on its own deliveries, and
\* its buffer, hasSentContent flag and id are those of its own run.
C11_Isolation ==
    \A i \in 1..2 :
        pState[i] # "none" =>
            LET r == FeedAll(pHist[i], <<>>, FALSE, <<>>)
            IN /\ pOut[i] = Restamp(AloneOut(pHist[i], pState[i]), i)
               /\ pBuffer[i] = r.buffer
               /\ pSent[i] = r.hasSentContent
               /\ pId[i] = i
C11_Witness ==
    /\ pState[1] = "flowing" /\ pBuffer[1] # <<>> /\ Len(pHist[1]) = 1
    /\ pState[2] = "ended" /\ HasBackendContent(pOut[2])
    /\ pWire[1] = pWire[2]

\* C19: two runs whose delivered text chunks have the same concatenation,
\* both followed by 'end', write the same frames up to id and created.
RECURSIVE TextOf(_)
TextOf(chunks) ==
    IF chunks = <<>> THEN <<>> ELSE Decode(Head(chunks)) \o TextOf(Tail(chunks))
Unstamp(ws) ==
    [k \in 1..Len(ws) |-> [ws[k] EXCEPT !.id = 0, !.created = 0]]
C19_SplitIndependent ==
    (/\ pState[1] = "ended" /\ pState[2] = "ended"
     /\ TextOf(pHist[1]) = TextOf(pHist[2]))
        => Unstamp(pOut[1]) = Unstamp(pOut[2])
C19_Witness ==
    /\ pState[1] = "ended" /\ pState[2] = "ended"
    /\ TextOf(pHist[1]) = TextOf(pHist[2])
    /\ pHist[1] # pHist[2]
    /\ HasBackendContent(pOut[1])
    /\ Unstamp(pOut[1]) = Unstamp(pOut[2])

\* C12: openaiToGeminiRequest yields one Content per Message, in order, with
\* role "model" for "assistant" and "user" for every other role, and a
\* single text part equal to the message's content.
C12_RoleMapping ==
    mapped =>
        /\ Len(geminiRequest.contents) = Len(openaiRequest.messages)
        /\ \A i \in 1..Len(openaiRequest.messages) :
             LET m == openaiRequest.messages[i]
                 c == geminiRequest.contents[i]
             IN /\ (m.role = "assistant" => c.role = "model")
                /\ (m.role # "assistant" => c.role = "user")
                /\ Len(c.parts) = 1
                /\ c.parts[1].text = m.content
C12_Witness ==
    /\ mapped
    /\ Len(openaiRequest.messages) = 2
    /\ openaiRequest.messages[1].role = "system"
    /\ openaiRequest.messages[2].role = "assistant"
    /\ openaiRequest.messages[1].content # openaiRequest.messages[2].content
    /\ geminiRequest.contents[1].role = "user"
    /\ geminiRequest.contents[2].role = "model"

\* C13: maxOutputTokens is present and equal to max_tokens exactly when
\* max_tokens is present and non-zero, and omitted when max_tokens is absent
\* or 0; the same for temperature.
CopiedWhenNonZero(src, dst) ==
    /\ dst.has <=> (src.has /\ src.v # 0)
    /\ dst.has => dst.v = src.v
C13_TruthyCopy ==
    mapped =>
        /\ CopiedWhenNonZero(openaiRequest.max_tokens,
                             geminiRequest.generationConfig.maxOutputTokens)
        /\ CopiedWhenNonZero(openaiRequest.temperature,
                             geminiRequest.generationConfig.temperature)
C13_Witness ==
    /\ mapped
    /\ openaiRequest.max_tokens = Some(0)
    /\ ~geminiRequest.generationConfig.maxOutputTokens.has
    /\ openaiRequest.temperature = Some(7)
    /\ geminiRequest.generationConfig.temperature = Some(7)

IsBlank(t) == \A i \in 1..Len(t) : t[i] = " "
Replied == backend.ok /\ clientResponse.kind = "chat"
BackendText == IF backend.path = "text" THEN backend.text ELSE <<>>

\* C14 (as stated): empty, missing or whitespace-only backend text yields
\* the placeholder with the fallback policy and the empty string without
\* it; any other text is returned unchanged.
C14_Original ==
    Replied =>
        clientResponse.content =
            (IF IsBlank(BackendText)
             THEN (IF fallback THEN Placeholder ELSE <<>>)
             ELSE BackendText)
\* C14 (amended): with the fallback policy, empty, missing or
\* whitespace-only backend text yields the placeholder and any other text
\* is returned unchanged; without the policy the extracted text is always
\* returned unchanged (the empty string when empty or missing).
C14_FallbackContent ==
    Replied =>
        clientResponse.content =
            (IF fallback /\ IsBlank(BackendText)
             THEN Placeholder ELSE BackendText)
C14_Witness ==
    /\ Replied /\ fallback
    /\ BackendText = <<" ", " ">>
    /\ clientResponse.content = Placeholder

\* C15: each usage field equals its usageMetadata counter when present and
\* 0 when the counter or usageMetadata is absent; total_tokens is copied,
\* not recomputed.
CounterOrZero(opt) == IF opt.has THEN opt.v ELSE 0
C15_UsageCopied ==
    Replied =>
        LET m == backend.usageMetadata
            u == clientResponse.usage
        IN /\ u.prompt_tokens = CounterOrZero(m.promptTokenCount)
           /\ u.completion_tokens = CounterOrZero(m.candidatesTokenCount)
           /\ u.total_tokens = CounterOrZero(m.totalTokenCount)
C15_Witness ==
    /\ Replied
    /\ backend.usageMetadata.promptTokenCount = Some(3)
    /\ backend.usageMetadata.candidatesTokenCount = None
    /\ backend.usageMetadata.totalTokenCount = Some(0)
    /\ clientResponse.usage.prompt_tokens = 3
    /\ clientResponse.usage.total_tokens = 0

\* C16: when the backend call fails and the response can still be written,
\* the client gets a JSON error whose status and code are the backend's
\* status, or 500 when there is none; no ChatResponse is produced.
C16_ErrorStatus ==
    (~backend.ok /\ backend.path = "failed") =>
        /\ clientResponse.kind # "chat"
        /\ resWritable =>
             /\ clientResponse.kind = "error"
             /\ clientResponse.status = clientResponse.code
             /\ clientResponse.status =
                    (IF backend.status.has THEN backend.status.v ELSE 500)
C16_Witness ==
    /\ backend.path = "failed" /\ backend.status = Some(429)
    /\ clientResponse.kind = "error" /\ clientResponse.status = 429

\* C18: every iteration of the delimiter-scan loop shortens the buffer by at
\* least the two delimiter characters, the loop runs at most once per
\* delimiter occurrence, and the pass returns.
DelimOccurrences(t) ==
    Cardinality({i \in 1..(Len(t) - 1) : t[i] = NL /\ t[i + 1] = NL})
C18_PassTerminates ==
    /\ [][(lPc = "scan" /\ lPc' = "scan")
              => Len(lBuffer') + 2 <= Len(lBuffer)]_vars
    /\ [](lPc = "done" => lIters <= DelimOccurrences(lStart))
    /\ <>(lPc = "done")
C18_Witness ==
    /\ lPc = "done" /\ lIters = 2
    /\ lBuffer # <<>>

NonEmptyFrames(fs) == SelectSeq(fs, LAMBDA f : FrameText(f) # <<>>)

\* the text left after the last delimiter found by the left-to-right scan
RECURSIVE Remainder(_)
Remainder(t) ==
    LET k == IndexOfDelim(t)
    IN IF k = 0 THEN t ELSE Remainder(SubSeq(t, k + 2, Len(t)))

\* C17: a malformed delimited frame writes nothing and does not disturb its
\* neighbours: the content chunks written are, in order, one per delivered
\* delimited frame that parses with non-empty text, and the buffer holds
\* only what follows the last delimiter, no byte of a consumed frame.  Texts
\* are compared up to the replacement characters that chunk.toString()
\* leaves for a multi-byte character split between two deliveries.
RECURSIVE Norm(_)
Norm(t) ==
    IF t = <<>> THEN <<>>
    ELSE (IF Head(t) = "U" THEN <<"R", "R">> ELSE <<Head(t)>>) \o Norm(Tail(t))
C17_MalformedDropped ==
    streamState = "flowing" =>
        LET text == Decode(SubSeq(wire, 1, pos))
            fs == NonEmptyFrames(DelimitedFrames(text))
        IN /\ Len(out) = Len(fs)
           /\ \A i \in 1..Len(fs) :
                /\ IsContent(out[i])
                /\ Norm(out[i].content) = Norm(FrameText(fs[i]))
           /\ Norm(buffer) = Norm(Remainder(text))
C17_Witness ==
    /\ wire \in Sandwich /\ pos = Len(wire) /\ nData = 1
    /\ streamState = "flowing"
    /\ ~JSONParses(StripPrefix(WireFrames[2]))
    /\ Len(out) = 2 /\ IsContent(out[1]) /\ IsContent(out[2])
    /\ buffer = <<>>

\* C20: a valid frame with non-empty text left undelimited at 'end' gets no
\* content chunk: the backend content chunks are those of the delimited
\* frames only, and with fallback enabled the placeholder is written when
\* it was the only frame.
BackendChunks(s) ==
    SelectSeq(s, LAMBDA f : IsContent(f) /\ f.content # Placeholder)
C20_TailDiscarded ==
    (streamState = "ended" /\ FrameText(Remainder(Decode(wire))) # <<>>) =>
        /\ Len(BackendChunks(out)) = Len(NonEmptyFrames(WireFrames))
        /\ (fallback /\ WireFrames = <<>>)
               => out = <<MeowChunk, DoneChunk, DoneSentinel, CloseMark>>
C20_Witness ==
    /\ streamState = "ended" /\ fallback
    /\ wire = FrameA
    /\ buffer = Decode(FrameA)
    /\ out = <<MeowChunk, DoneChunk, DoneSentinel, CloseMark>>

\* C21: no frame is written to the outgoing stream after it has been closed,
\* whatever the order of the 'data', 'end' and 'error' events: once res.end()
\* has run, no later event calls res.write.
C21_NoWriteAfterClose ==
    [][writableEnded => Frames(out') = Frames(out)]_vars

\* C22: after every completed pass of the 'data' handler the buffer has no
\* two consecutive newlines, and it equals the part of the text received so
\* far that follows the last delimiter found by the left-to-right scan.
NoDelimiter(t) == \A i \in 1..(Len(t) - 1) : ~(t[i] = NL /\ t[i + 1] = NL)
Received == Decode(SubSeq(wire, 1, pos))
C22_BufferIsTail ==
    pc = "streaming" =>
        /\ NoDelimiter(buffer)
        /\ buffer = Remainder(Received)
C22_Witness ==
    /\ wire = <<"a", NL, NL, NL, "a">>
    /\ pos = Len(wire) /\ nData = 3
    /\ buffer = <<NL, "a">>

\* C23: in the fallback-enabled re-framer hasSentContent is false until the
\* first backend content chunk is written, true from then on and never false
\* again; the placeholder chunk is written at most once, and never on a
\* stream that carries a backend content chunk.
Placeholders(s) ==
    SelectSeq(s, LAMBDA f : IsContent(f) /\ f.content = Placeholder)
C23_FlagAndPlaceholder ==
    /\ [](fallback =>
            /\ hasSentContent <=> (BackendChunks(out) # <<>>)
            /\ Len(Placeholders(out)) <= 1
            /\ Placeholders(out) # <<>> => BackendChunks(out) = <<>>)
    /\ [][(fallback /\ hasSentContent) => hasSentContent']_vars
C23_Witness ==
    /\ fallback /\ streamState = "ended" /\ hasSentContent
    /\ Len(NonEmptyFrames(WireFrames)) = 1 /\ Len(WireFrames) = 2
    /\ FrameText(WireFrames[2]) = <<>>
    /\ Len(BackendChunks(out)) = 1
    /\ Placeholders(out) = <<>>

====
